---- MODULE Spec2Model ----
(***************************************************************************)
(* Model of the correction engine of auto-debugger-agent:                  *)
(*   json_validator.py  _clean_json_text, _extract_json_object,            *)
(*                      validate_json_correction                           *)
(*   patcher.py         apply_indent, apply_patch, restore_backup          *)
(*   main.py            the command-line pipeline                          *)
(*   interface.py       the interactive session                            *)
(*                                                                         *)
(* Text is a sequence of one-character strings.  A JSON value is a record  *)
(* [t, n, s, d]: its Python type after json.loads, its number (a bool      *)
(* keeps the integer value Python gives it), its characters, its keys.     *)
(***************************************************************************)
EXTENDS Integers, Sequences, FiniteSets, TLC

VARIABLES
    fs,        \* the file system: path -> content, or NoFile
    vcall,     \* the last call of validate_json_correction: input and outcome
    pcall,     \* the last call of apply_patch / restore_backup: input, file system before, outcome
    session,   \* interface.py: st.session_state (analysis, confirm_patch)
    pipe       \* the last pipeline request: raw text, validation outcome, whether apply_patch ran

vars == <<fs, vcall, pcall, session, pipe>>

-----------------------------------------------------------------------------
(* Bounds of the model *)

\* the largest line number a candidate carries beyond 1, 2
MaxLineVal == 4
\* the largest max_line handed to the validator
MaxMaxLine == 3
\* the longest target file content, in characters, the patcher model starts from
MaxFileLen == 3
\* the number of patcher operations in one behaviour
MaxOps == 3

-----------------------------------------------------------------------------
(* Python str helpers *)

\* str.strip(), str.isspace(): the whitespace characters of the model's alphabet
IsSpace(ch) == ch \in {" ", "\t", "\n"}

RECURSIVE LStripWs(_)
LStripWs(s) ==
    IF s = <<>> THEN <<>>
    ELSE IF IsSpace(Head(s)) THEN LStripWs(Tail(s)) ELSE s

RECURSIVE RStripWs(_)
RStripWs(s) ==
    IF s = <<>> THEN <<>>
    ELSE IF IsSpace(s[Len(s)]) THEN RStripWs(SubSeq(s, 1, Len(s) - 1)) ELSE s

\* s.strip()
Strip(s) == RStripWs(LStripWs(s))

\* s.lstrip("\t ")
RECURSIVE LStripTabSpace(_)
LStripTabSpace(s) ==
    IF s = <<>> THEN <<>>
    ELSE IF Head(s) \in {" ", "\t"} THEN LStripTabSpace(Tail(s)) ELSE s

\* the letters the denylist tokens are made of, upper case -> lower case
UpperOf ==
    [ch \in {"o","s","y","t","e","m","u","b","p","r","c","h","i","l","n","x","v","a"} |->
        CASE ch = "o" -> "O" [] ch = "s" -> "S" [] ch = "y" -> "Y" [] ch = "t" -> "T"
          [] ch = "e" -> "E" [] ch = "m" -> "M" [] ch = "u" -> "U" [] ch = "b" -> "B"
          [] ch = "p" -> "P" [] ch = "r" -> "R" [] ch = "c" -> "C" [] ch = "h" -> "H"
          [] ch = "i" -> "I" [] ch = "l" -> "L" [] ch = "n" -> "N" [] ch = "x" -> "X"
          [] ch = "v" -> "V" [] ch = "a" -> "A"]

LowerLetters == DOMAIN UpperOf
UpperLetters == {UpperOf[ch] : ch \in LowerLetters}

\* one character of str.lower()
LowerChar(ch) ==
    IF ch \in UpperLetters THEN CHOOSE l \in LowerLetters : UpperOf[l] = ch ELSE ch

\* a screen that compares the payload as it is written
LowerKeepsCase(s) == s

\* s.lower()
Lower(s) == [i \in 1..Len(s) |-> LowerChar(s[i])]

\* s.endswith(p)
EndsWith(s, p) == Len(p) <= Len(s) /\ SubSeq(s, Len(s) - Len(p) + 1, Len(s)) = p

\* tok in s  (substring)
Contains(s, tok) ==
    \E i \in 1..(Len(s) - Len(tok) + 1) : SubSeq(s, i, i + Len(tok) - 1) = tok

-----------------------------------------------------------------------------
(* JSON values as json.loads returns them *)

EmptyDict == [k \in {} |-> 0]

JNull     == [t |-> "null",  n |-> 0, s |-> <<>>, d |-> EmptyDict]
JInt(i)   == [t |-> "int",   n |-> i, s |-> <<>>, d |-> EmptyDict]
\* Python: True == 1, False == 0, and bool is a subclass of int
JBool(b)  == [t |-> "bool",  n |-> IF b THEN 1 ELSE 0, s |-> <<>>, d |-> EmptyDict]
\* the float n + 0.5
JFloat(i) == [t |-> "float", n |-> i, s |-> <<>>, d |-> EmptyDict]
JStr(str) == [t |-> "str",   n |-> 0, s |-> str,  d |-> EmptyDict]
\* a JSON array; n = 1: the array ["file","line","action","new_code"], n = 0: []
JList(i)  == [t |-> "list",  n |-> i, s |-> <<>>, d |-> EmptyDict]
JDict(f)  == [t |-> "dict",  n |-> 0, s |-> <<>>, d |-> f]
\* the float json.loads returns for the constant NaN (one object, json.decoder.NaN)
JNaN      == [t |-> "nan",   n |-> 0, s |-> <<>>, d |-> EmptyDict]

\* a == b in Python for two values json.loads returned: a float NaN differs from
\* itself; inside a dict or a list the members are compared by identity first
PyEq(a, b) == a = b /\ a.t # "nan"

\* isinstance(v, str), isinstance(v, int), v is None
IsStr(v)  == v.t = "str"
IsInt(v)  == v.t \in {"int", "bool"}
IsNone(v) == v.t = "null"

ActReplace == <<"r","e","p","l","a","c","e">>
ActInsert  == <<"i","n","s","e","r","t">>
ActDelete  == <<"d","e","l","e","t","e">>
ActNone    == <<"n","o","n","e">>

KeyChars ==
    [k \in {"file", "line", "action", "new_code"} |->
        CASE k = "file"     -> <<"f","i","l","e">>
          [] k = "line"     -> <<"l","i","n","e">>
          [] k = "action"   -> <<"a","c","t","i","o","n">>
          [] k = "new_code" -> <<"n","e","w","_","c","o","d","e">>]

\* v == "<str>" for a Python str literal
EqStr(v, str) == IsStr(v) /\ v.s = str

-----------------------------------------------------------------------------
(* Raw text.  A raw text is a sequence of lines, a line a sequence of      *)
(* tokens separated by blanks: a code fence marker, the label word "json"  *)
(* (any casing), a prose word without braces, a stray brace, or the text   *)
(* of one well-formed JSON value.                                          *)

TFence  == [k |-> "fence",  v |-> JNull]
TLabel  == [k |-> "json",   v |-> JNull]
TWord   == [k |-> "word",   v |-> JNull]
TLBrace == [k |-> "lbrace", v |-> JNull]
TRBrace == [k |-> "rbrace", v |-> JNull]
TVal(v) == [k |-> "val",    v |-> v]

\* the outcome of a call: a returned value or the kind of exception raised
Ok(v)     == [kind |-> "ok", val |-> v]
Raise(ex) == [kind |-> ex,   val |-> JNull]

\* "\n".join(cleaned_lines): the tokens of the kept lines, in order
RECURSIVE JoinLines(_)
JoinLines(lines) ==
    IF lines = <<>> THEN <<>> ELSE Head(lines) \o JoinLines(Tail(lines))

\* the lines whose stripped form does not start with ```
RECURSIVE DropFenceLines(_)
DropFenceLines(lines) ==
    IF lines = <<>> THEN <<>>
    ELSE IF Head(lines) # <<>> /\ Head(Head(lines)) = TFence
         THEN DropFenceLines(Tail(lines))
         ELSE <<Head(lines)>> \o DropFenceLines(Tail(lines))

\* a cleaning that removes the first word whether or not it is the label
_clean_json_text_DropsFirstWord(text) ==
    LET cleaned == JoinLines(DropFenceLines(text))
    IN  IF cleaned # <<>> THEN Tail(cleaned) ELSE cleaned

_clean_json_text(text) ==
    LET cleaned == JoinLines(DropFenceLines(text))
    IN  IF cleaned # <<>> /\ Head(cleaned) = TLabel THEN Tail(cleaned) ELSE cleaned

\* json.loads(toks): the value, or JSONDecodeError
JsonLoads(toks) ==
    IF Len(toks) = 1 /\ toks[1].k = "val" THEN Ok(toks[1].v)
    ELSE IF toks = <<TLBrace, TRBrace>> THEN Ok(JDict(EmptyDict))
    ELSE Raise("JSONDecodeError")

\* a token whose text holds "{", a token whose text holds "}"
HasLBrace(tok) == tok.k = "lbrace" \/ (tok.k = "val" /\ tok.v.t = "dict")
HasRBrace(tok) == tok.k = "rbrace" \/ (tok.k = "val" /\ tok.v.t = "dict")

_extract_json_object(text) ==
    LET cleaned == _clean_json_text(text)
        direct  == JsonLoads(cleaned)
        starts  == {i \in 1..Len(cleaned) : HasLBrace(cleaned[i])}
        ends    == {i \in 1..Len(cleaned) : HasRBrace(cleaned[i])}
        start   == CHOOSE i \in starts : \A j \in starts : i <= j
        end     == CHOOSE i \in ends : \A j \in ends : j <= i
    IN  IF cleaned = <<>> THEN Raise("JsonValidationError")
        ELSE IF direct.kind = "ok" THEN direct
        ELSE IF starts = {} \/ ends = {} \/ end < start
             THEN Raise("JsonValidationError")
        ELSE IF JsonLoads(SubSeq(cleaned, start, end)).kind = "ok"
             THEN JsonLoads(SubSeq(cleaned, start, end))
        ELSE Raise("JsonValidationError")

-----------------------------------------------------------------------------
(* validate_json_correction *)

RequiredKeys == {"file", "line", "action", "new_code"}

\* an absent max_line (None) and a given one
NoMaxLine   == [some |-> FALSE, n |-> 0]
MaxLine(n)  == [some |-> TRUE,  n |-> n]

DangerousTokens ==
    { <<"o","s",".","s","y","s","t","e","m">>,
      <<"s","u","b","p","r","o","c","e","s","s">>,
      <<"s","h","u","t","i","l",".","r","m","t","r","e","e">>,
      <<"o","p","e","n","(">>,
      <<"e","x","e","c","(">>,
      <<"e","v","a","l","(">> }

\* `k in parsed` is defined for a dict (keys), a list (elements), a str (substring)
InDefined(parsed) == parsed.t \in {"dict", "list", "str"}
KeyIn(k, parsed) ==
    CASE parsed.t = "dict" -> k \in DOMAIN parsed.d
      [] parsed.t = "list" -> parsed.n = 1
      [] parsed.t = "str"  -> Contains(parsed.s, KeyChars[k])
      [] OTHER -> FALSE

\* the checks of lines 132-179, for a dict that holds the four keys and whose
\* action is replace, insert or delete
ValidateEdit(parsed, max_line) ==
    LET action       == parsed.d["action"].s
        file_val     == parsed.d["file"]
        line_val     == parsed.d["line"]
        new_code_val == parsed.d["new_code"]
    IN  IF IsNone(file_val) \/ ~IsStr(file_val) \/ Strip(file_val.s) = <<>>
        THEN Raise("JsonValidationError")
        ELSE IF ~IsInt(line_val) \/ line_val.n <= 0
        THEN Raise("JsonValidationError")
        ELSE IF max_line.some /\ line_val.n > max_line.n
        THEN Raise("JsonValidationError")
        ELSE IF action \in {ActReplace, ActInsert}
                /\ (~IsStr(new_code_val) \/ Strip(new_code_val.s) = <<>>)
        THEN Raise("JsonValidationError")
        ELSE IF action = ActDelete
                /\ ~(EqStr(new_code_val, <<>>) \/ IsNone(new_code_val))
        THEN Raise("JsonValidationError")
        ELSE IF action \in {ActReplace, ActInsert}
                /\ \E tok \in DangerousTokens : Contains(Lower(new_code_val.s), tok)
        THEN Raise("JsonValidationError")
        ELSE Ok(parsed)

\* the checks of lines 103-130 on the parsed value
ValidateParsed(parsed, max_line) ==
    IF ~InDefined(parsed) THEN Raise("TypeError")
    ELSE IF ~(\A k \in RequiredKeys : KeyIn(k, parsed)) THEN Raise("JsonValidationError")
    ELSE IF parsed.t # "dict" THEN Raise("TypeError")
    ELSE LET action == parsed.d["action"]
         IN  IF ~(\E a \in {ActReplace, ActInsert, ActDelete, ActNone} : EqStr(action, a))
             THEN Raise("JsonValidationError")
             ELSE IF EqStr(action, ActNone)
             THEN IF IsNone(parsed.d["file"]) /\ IsNone(parsed.d["line"])
                     /\ IsNone(parsed.d["new_code"])
                  THEN Ok(parsed)
                  ELSE Raise("JsonValidationError")
             ELSE ValidateEdit(parsed, max_line)

\* `not raw_text or not raw_text.strip()`
IsBlankText(raw_text) == \A i \in 1..Len(raw_text) : raw_text[i] = <<>>

validate_json_correction(raw_text, max_line) ==
    IF IsBlankText(raw_text) THEN Raise("JsonValidationError")
    ELSE LET parsed == _extract_json_object(raw_text)
         IN  IF parsed.kind # "ok" THEN parsed
             ELSE ValidateParsed(parsed.val, max_line)

-----------------------------------------------------------------------------
(* Inputs of the validator *)

\* a key the candidate object does not hold
Missing == [t |-> "missing", n |-> 0, s |-> <<>>, d |-> EmptyDict]

\* the JSON object with the given values, a Missing one left out
Candidate(f, l, a, c) ==
    LET given == [k \in RequiredKeys |->
                    CASE k = "file" -> f [] k = "line" -> l
                      [] k = "action" -> a [] k = "new_code" -> c]
    IN  JDict([k \in {x \in RequiredKeys : given[x] # Missing} |-> given[k]])

\* the text of one JSON value on one line
PlainText(v) == << <<TVal(v)>> >>

FileVals == {Missing, JNull, JStr(<<>>), JStr(<<" ">>), JStr(<<"x">>), JInt(1)}
LineVals ==
    {Missing, JNull, JBool(TRUE), JBool(FALSE), JFloat(1), JStr(<<"1">>)}
        \cup {JInt(i) : i \in -1..MaxLineVal}
ActionVals ==
    {Missing, JNull, JInt(1), JStr(<<"R","E","P","L","A","C","E">>),
     JStr(ActReplace), JStr(ActInsert), JStr(ActDelete), JStr(ActNone)}
NewCodeVals ==
    {Missing, JNull, JInt(0), JStr(<<>>), JStr(<<" ">>), JStr(<<"\n">>), JStr(<<"a">>),
     JStr(<<"\t","a">>), JStr(<<"a","\n","a">>), JStr(<<"E","v","a","l","(">>)}

SchemaCandidates ==
    {Candidate(f, l, a, c) : f \in FileVals, l \in LineVals, a \in ActionVals, c \in NewCodeVals}

\* every letter casing of a text
RECURSIVE CaseVariants(_)
CaseVariants(str) ==
    IF str = <<>> THEN {<<>>}
    ELSE LET rest == CaseVariants(Tail(str))
             h    == Head(str)
         IN  {<<h>> \o r : r \in rest}
                \cup (IF h \in LowerLetters THEN {<<UpperOf[h]>> \o r : r \in rest} ELSE {})

\* payloads that hold a denylisted token in some casing, and payloads that nearly do
TokenCodes ==
    LET cased == UNION {CaseVariants(tok) : tok \in DangerousTokens}
    IN  {pre \o v \o post : pre \in {<<>>, <<"x","="," ">>}, v \in cased, post \in {<<>>, <<"1",")">>}}
NearTokenCodes ==
    { <<"e","v","a","l">>, <<"E","X","E","C"," ","(">>, <<"o","s","_","s","y","s","t","e","m">>,
      <<"s","u","b","_","p","r","o","c","e","s","s">>, <<"o","p","e","n">>,
      <<"s","h","u","t","i","l",".","r","m">> }

ScreenCandidates ==
    {Candidate(JStr(<<"x">>), JInt(1), JStr(a), JStr(c)) :
        a \in {ActReplace, ActInsert}, c \in TokenCodes \cup NearTokenCodes}
    \cup {Candidate(JStr(<<"x">>), JInt(1), JStr(a), JStr(c)) :
            a \in {ActDelete, ActNone}, c \in {<<"e","v","a","l","(">>, <<"O","p","e","n","(">>}}

MaxLines == {NoMaxLine} \cup {MaxLine(n) : n \in 0..MaxMaxLine}

\* a call about to be made, and no call at all
PendingCall(raw_text, max_line) ==
    [called |-> FALSE, raw |-> raw_text, max_line |-> max_line, out |-> Raise("none")]
NoValidatorCall == PendingCall(<<>>, NoMaxLine)

-----------------------------------------------------------------------------
(* The validator called on one raw text *)

Validate ==
    /\ ~vcall.called
    /\ vcall' = [vcall EXCEPT !.called = TRUE,
                              !.out = validate_json_correction(vcall.raw, vcall.max_line)]
    /\ UNCHANGED <<fs, pcall, session, pipe>>

-----------------------------------------------------------------------------
(* The file system and patcher.py *)

\* a file that does not exist, a file with its content
NoFile     == [exists |-> FALSE, data |-> <<>>]
File(data) == [exists |-> TRUE,  data |-> data]

\* A path is a sequence of characters; the directory names "root" (project_root)
\* and "sources" and the suffix ".bak" stand as one element each.
ProjectRoot == <<"/", "root">>

\* os.path.join(project_root, "sources", file_name): an absolute last component
\* discards the components before it
TargetPath(file_name) ==
    IF file_name # <<>> /\ Head(file_name) = "/" THEN file_name
    ELSE ProjectRoot \o <<"/", "sources", "/">> \o file_name
\* file_path + ".bak"
BackupPath(file_path) == file_path \o <<".bak">>

\* the target file of the model and its backup slot
TargetName == <<"x">>
Target     == TargetPath(TargetName)
Backup     == BackupPath(Target)

\* file names that lead out of the sources directory: "../x" and "/x"
ParentName   == <<".", ".", "/", "x">>
AbsoluteName == <<"/", "x">>
FileNames    == {TargetName, ParentName, AbsoluteName}

\* the paths of the model's file system: each named file with its backup slot, and
\* the name a second generation of the target's backup would take
Paths ==
    {TargetPath(f) : f \in FileNames} \cup {BackupPath(TargetPath(f)) : f \in FileNames}
        \cup {BackupPath(Backup)}

\* f.readlines(): the lines of a text, each with its line break, the last one maybe without
RECURSIVE ReadLinesFrom(_, _)
ReadLinesFrom(data, cur) ==
    IF data = <<>> THEN (IF cur = <<>> THEN <<>> ELSE <<cur>>)
    ELSE IF Head(data) = "\n"
         THEN <<Append(cur, "\n")>> \o ReadLinesFrom(Tail(data), <<>>)
         ELSE ReadLinesFrom(Tail(data), Append(cur, Head(data)))
ReadLines(data) == ReadLinesFrom(data, <<>>)

\* f.writelines(lines): the lines one after the other, nothing added
RECURSIVE WriteLines(_)
WriteLines(lines) ==
    IF lines = <<>> THEN <<>> ELSE Head(lines) \o WriteLines(Tail(lines))

\* the leading run of spaces and tabs of a line (lines 19-24)
RECURSIVE IndentPrefix(_)
IndentPrefix(line) ==
    IF line = <<>> THEN <<>>
    ELSE IF Head(line) \in {" ", "\t"} THEN <<Head(line)>> \o IndentPrefix(Tail(line))
    ELSE <<>>

\* the payload's own indentation kept behind the prefix
apply_indent_KeepsPayloadIndent(reference_line, new_code) ==
    IndentPrefix(reference_line) \o new_code

apply_indent(reference_line, new_code) ==
    IndentPrefix(reference_line) \o LStripTabSpace(new_code)

\* `if not new_line.endswith("\n"): new_line += "\n"`
EnsureNewline(new_line) ==
    IF EndsWith(new_line, <<"\n">>) THEN new_line ELSE Append(new_line, "\n")

\* lines.insert(index, new_line), lines.pop(index), lines[index] = new_line; index is 0-based
ListInsert(lines, index, new_line) ==
    SubSeq(lines, 1, index) \o <<new_line>> \o SubSeq(lines, index + 1, Len(lines))
ListPop(lines, index) ==
    SubSeq(lines, 1, index) \o SubSeq(lines, index + 2, Len(lines))
ListSet(lines, index, new_line) == [lines EXCEPT ![index + 1] = new_line]

\* the reference line of an insert (lines 102-107)
InsertRefLine(lines, index) ==
    IF 0 <= index /\ index < Len(lines) THEN lines[index + 1]
    ELSE IF index > 0 THEN lines[index]
    ELSE <<>>

\* the return value of apply_patch for action = none
NothingApplied == <<"Aucune correction a appliquer.">>

\* what a call of the patcher leaves: the file system, the outcome (the returned
\* text, or the exception), and the list `lines` as it was written (or read)
PatchOutcome(fsys, kind, ret, lines) ==
    [fs |-> fsys, kind |-> kind, ret |-> ret, lines |-> lines]

\* a copy that does not overwrite an existing destination
CopyFileKeepsExisting(fsys, src, dst) ==
    IF fsys[dst].exists THEN fsys ELSE [fsys EXCEPT ![dst] = fsys[src]]

\* shutil.copyfile(src, dst)
CopyFile(fsys, src, dst) == [fsys EXCEPT ![dst] = fsys[src]]

\* the edited list of lines, or the exception raised instead
Edited(lines)  == [kind |-> "ok", lines |-> lines]
EditFails(ex)  == [kind |-> ex,   lines |-> <<>>]

\* an insert that demands an existing line at index, as replace and delete do
EditLines_InsertNeedsLine(lines, action, index, new_code) ==
    CASE action = ActReplace ->
            IF index >= Len(lines) THEN EditFails("IndexError")
            ELSE Edited(ListSet(lines, index,
                                EnsureNewline(apply_indent(lines[index + 1], new_code))))
      [] action = ActInsert ->
            IF index >= Len(lines) THEN EditFails("IndexError")
            ELSE Edited(ListInsert(lines, index,
                           EnsureNewline(apply_indent(InsertRefLine(lines, index), new_code))))
      [] action = ActDelete ->
            IF index >= Len(lines) THEN EditFails("IndexError")
            ELSE Edited(ListPop(lines, index))
      [] OTHER -> EditFails("ValueError")

\* lines 78-128: the edit of the list `lines`
EditLines(lines, action, index, new_code) ==
    CASE action = ActReplace ->
            IF index >= Len(lines) THEN EditFails("IndexError")
            ELSE Edited(ListSet(lines, index,
                                EnsureNewline(apply_indent(lines[index + 1], new_code))))
      [] action = ActInsert ->
            Edited(ListInsert(lines, index,
                       EnsureNewline(apply_indent(InsertRefLine(lines, index), new_code))))
      [] action = ActDelete ->
            IF index >= Len(lines) THEN EditFails("IndexError")
            ELSE Edited(ListPop(lines, index))
      [] OTHER -> EditFails("ValueError")

\* action = none handled after the snapshot of the target
NoneResultAfterSnapshot(fsys) ==
    PatchOutcome(CopyFile(fsys, Target, Backup), "ok", NothingApplied, <<>>)

\* lines 46-48: action = none returns before any file access
NoneResult(fsys) == PatchOutcome(fsys, "ok", NothingApplied, <<>>)

apply_patch(fsys, correction) ==
    LET action    == correction.d["action"].s
        file_path == TargetPath(correction.d["file"].s)
        index     == correction.d["line"].n - 1
        new_code  == correction.d["new_code"].s
        saved     == CopyFile(fsys, file_path, BackupPath(file_path))
        lines     == ReadLines(fsys[file_path].data)
        edited    == EditLines(lines, action, index, new_code)
    IN  IF action = ActNone THEN NoneResult(fsys)
        ELSE IF ~fsys[file_path].exists
             THEN PatchOutcome(fsys, "FileNotFoundError", <<>>, <<>>)
        ELSE IF index < 0 \/ index > Len(lines)
             THEN PatchOutcome(saved, "IndexError", <<>>, lines)
        ELSE IF edited.kind # "ok"
             THEN PatchOutcome(saved, edited.kind, <<>>, lines)
        ELSE PatchOutcome([saved EXCEPT ![file_path] = File(WriteLines(edited.lines))],
                          "ok", file_path, edited.lines)

\* a restore that moves the backup onto the target instead of copying it
restore_backup_MovesBackup(fsys, file_name) ==
    LET file_path   == TargetPath(file_name)
        backup_path == BackupPath(file_path)
    IN  IF ~fsys[backup_path].exists
        THEN PatchOutcome(fsys, "FileNotFoundError", <<>>, <<>>)
        ELSE PatchOutcome([fsys EXCEPT ![file_path] = fsys[backup_path], ![backup_path] = NoFile],
                          "ok", file_path, <<>>)

restore_backup(fsys, file_name) ==
    LET file_path   == TargetPath(file_name)
        backup_path == BackupPath(file_path)
    IN  IF ~fsys[backup_path].exists
        THEN PatchOutcome(fsys, "FileNotFoundError", <<>>, <<>>)
        ELSE PatchOutcome(CopyFile(fsys, backup_path, file_path), "ok", file_path, <<>>)

-----------------------------------------------------------------------------
(* The patcher called on one file: apply_patch and restore_backup *)

\* the characters of a target file
FileChars == {" ", "a", "\n"}

\* every text of at most n characters
RECURSIVE Texts(_)
Texts(n) ==
    IF n = 0 THEN {<<>>}
    ELSE LET shorter == Texts(n - 1)
         IN  shorter \cup {Append(t, ch) : t \in {x \in shorter : Len(x) = n - 1}, ch \in FileChars}

\* a backup left by an earlier run
OldBackups == {<<>>, <<"a","\n">>, <<"b","\n","b","\n">>}

\* the payloads of the corrections handed to apply_patch
PatchCodes == {<<"a">>, <<"\t","a">>, <<" "," ","a","\n">>, <<"a","\n","a">>}

\* the corrections handed to apply_patch for a target of n lines: the line values
\* -1 .. n + 2 and true, the file names of `files`
PatchCorrections(n, files) ==
    LET lineVals == {JInt(i) : i \in -1..(n + 2)} \cup {JBool(TRUE)}
    IN  {Candidate(JStr(f), l, JStr(a), JStr(c)) :
            f \in files, l \in lineVals, a \in {ActReplace, ActInsert}, c \in PatchCodes}
        \cup {Candidate(JStr(f), l, JStr(ActDelete), c) :
                f \in files, l \in lineVals, c \in {JNull, JStr(<<>>)}}
        \cup {Candidate(JNull, JNull, JStr(ActNone), JNull)}

\* how the patcher is driven in one behaviour: the number of apply_patch calls, the
\* file names the corrections carry, and whether apply_patch is called directly, on
\* corrections that did not pass through the validator
Drive(applies, files, direct) == [applies |-> applies, files |-> files, direct |-> direct]

\* no call yet: the record of the last call, the content `orig` of the target before
\* the last apply_patch, the content `first` before the first one, and the number
\* okApplies of apply_patch calls that wrote the target
NoPatcherCall(fsys, drive) ==
    [ops |-> <<>>, corr |-> JNull, before |-> fsys, kind |-> "none", ret |-> <<>>,
     lines |-> <<>>, orig |-> NoFile, first |-> NoFile, applyOk |-> FALSE,
     okApplies |-> 0, drive |-> drive]

\* apply_patch(project_root, correction), on a correction the validator returned
\* unless the behaviour drives apply_patch directly
ApplyPatch ==
    /\ Len(pcall.ops) < pcall.drive.applies
    /\ \E correction \in PatchCorrections(Len(ReadLines(fs[Target].data)), pcall.drive.files) :
          /\ \/ pcall.drive.direct
             \/ validate_json_correction(PlainText(correction), NoMaxLine) = Ok(correction)
          /\ LET r  == apply_patch(fs, correction)
                 ok == r.kind = "ok" /\ correction.d["action"].s # ActNone
             IN  /\ fs' = r.fs
                 /\ pcall' = [pcall EXCEPT !.ops = Append(@, "apply"), !.corr = correction,
                                           !.before = fs, !.kind = r.kind, !.ret = r.ret,
                                           !.lines = r.lines, !.orig = fs[Target],
                                           !.first = IF pcall.ops = <<>> THEN fs[Target] ELSE @,
                                           !.applyOk = ok,
                                           !.okApplies = IF ok THEN @ + 1 ELSE @]
    /\ UNCHANGED <<vcall, session, pipe>>

\* restore_backup(project_root, file_name)
RestoreBackup ==
    /\ Len(pcall.ops) < MaxOps
    /\ LET r == restore_backup(fs, TargetName)
       IN  /\ fs' = r.fs
           /\ pcall' = [pcall EXCEPT !.ops = Append(@, "restore"), !.before = fs,
                                     !.kind = r.kind, !.ret = r.ret, !.lines = r.lines]
    /\ UNCHANGED <<vcall, session, pipe>>

InitPatcher ==
    /\ \E target \in {NoFile} \cup {File(t) : t \in Texts(MaxFileLen)},
          backup \in {NoFile} \cup {File(t) : t \in OldBackups} :
          fs = [p \in Paths |-> IF p = Target THEN target
                                ELSE IF p = Backup THEN backup ELSE NoFile]
    /\ pcall = NoPatcherCall(fs, Drive(1, {TargetName}, FALSE))
    /\ vcall = NoValidatorCall /\ session = 0 /\ pipe = 0

NextPatcher == ApplyPatch \/ RestoreBackup

SpecPatcher == InitPatcher /\ [][NextPatcher]_vars

\* apply_patch called directly, also on corrections whose line is zero or negative
InitRange ==
    /\ \E target \in {NoFile} \cup {File(t) : t \in Texts(MaxFileLen)},
          backup \in {NoFile, File(<<"b", "\n">>)} :
          fs = [p \in Paths |-> IF p = Target THEN target
                                ELSE IF p = Backup THEN backup ELSE NoFile]
    /\ pcall = NoPatcherCall(fs, Drive(1, {TargetName}, TRUE))
    /\ vcall = NoValidatorCall /\ session = 0 /\ pipe = 0

NextRange == ApplyPatch \/ RestoreBackup

SpecRange == InitRange /\ [][NextRange]_vars

\* apply_patch on validated corrections whose file field names a file inside the
\* sources directory, one through its parent directory, or one by an absolute path
InitPaths ==
    /\ fs = [p \in Paths |-> IF p \in {TargetPath(f) : f \in FileNames}
                              THEN File(<<"a", "\n">>) ELSE NoFile]
    /\ pcall = NoPatcherCall(fs, Drive(1, FileNames, FALSE))
    /\ vcall = NoValidatorCall /\ session = 0 /\ pipe = 0

NextPaths == ApplyPatch \/ RestoreBackup

SpecPaths == InitPaths /\ [][NextPaths]_vars

\* the target files and old backups of the behaviours that apply twice
UndoFiles   == {<<"a", "\n">>, <<" ", "a", "\n", "a", "\n">>}
UndoBackups == {NoFile, File(<<"b", "\n">>)}

\* two apply_patch calls on the same target, then restore_backup
InitUndo ==
    /\ \E t \in UndoFiles, backup \in UndoBackups :
          fs = [p \in Paths |-> IF p = Target THEN File(t)
                                ELSE IF p = Backup THEN backup ELSE NoFile]
    /\ pcall = NoPatcherCall(fs, Drive(2, {TargetName}, FALSE))
    /\ vcall = NoValidatorCall /\ session = 0 /\ pipe = 0

NextUndo == ApplyPatch \/ RestoreBackup

SpecUndo == InitUndo /\ [][NextUndo]_vars

\* raw texts that are blank, hold no brace pair, or parse to a value that is no
\* JSON object; the last string holds the four key names
NonObjectTexts ==
    { <<>>, << <<>> >>, << <<TWord>> >>, << <<TRBrace, TWord, TLBrace>> >>, << <<TLBrace, TWord>> >> }
        \cup {PlainText(v) :
                v \in {JInt(1), JFloat(1), JNull, JBool(TRUE), JNaN, JList(0), JList(1),
                       JStr(<<"a">>),
                       JStr(KeyChars["file"] \o KeyChars["line"] \o KeyChars["action"]
                                \o KeyChars["new_code"])}}

InitValidator ==
    /\ \/ \E c \in SchemaCandidates, ml \in MaxLines : vcall = PendingCall(PlainText(c), ml)
       \/ \E c \in ScreenCandidates : vcall = PendingCall(PlainText(c), NoMaxLine)
       \/ \E raw_text \in NonObjectTexts, ml \in MaxLines : vcall = PendingCall(raw_text, ml)
    /\ fs = 0 /\ pcall = 0 /\ session = 0 /\ pipe = 0

NextValidator == Validate

SpecValidator == InitValidator /\ [][NextValidator]_vars

-----------------------------------------------------------------------------
(* The two pipelines: main.py (one run of the command line) and            *)
(* interface.py (the events of one interactive session)                    *)

\* the number of apply_patch and restore_backup calls in one behaviour
MaxCalls == 2

\* main.py imports parse_and_validate_correction, which json_validator.py does not
\* define: it is taken to be the validator of the design, validate(candidate, maxLine)
parse_and_validate_correction(raw_text, max_line) ==
    validate_json_correction(raw_text, max_line)

\* len(code.splitlines())
SplitLinesCount(code) == Len(ReadLines(code))

\* candidates the text-generation service may answer with
GoodReplace   == Candidate(JStr(TargetName), JInt(1), JStr(ActReplace), JStr(<<"a">>))
LateReplace   == Candidate(JStr(TargetName), JInt(3), JStr(ActReplace), JStr(<<"a">>))
GoodInsert    == Candidate(JStr(TargetName), JInt(2), JStr(ActInsert), JStr(<<"\t","a">>))
GoodDelete    == Candidate(JStr(TargetName), JInt(1), JStr(ActDelete), JNull)
GoodNone      == Candidate(JNull, JNull, JStr(ActNone), JNull)
UnsafeReplace == Candidate(JStr(TargetName), JInt(1), JStr(ActReplace), JStr(<<"E","v","a","l","(">>))
NoCodeReplace == Candidate(JStr(TargetName), JInt(1), JStr(ActReplace), Missing)
ZeroDelete    == Candidate(JStr(TargetName), JInt(0), JStr(ActDelete), JNull)

PipeCandidates ==
    {GoodReplace, LateReplace, GoodInsert, GoodDelete, GoodNone,
     UnsafeReplace, NoCodeReplace, ZeroDelete, JList(1), JInt(1)}

\* a value inside a fenced block, behind the label word, and inside prose
FencedText(v)   == << <<TFence, TLabel>>, <<TVal(v)>>, <<TFence>> >>
LabelledText(v) == << <<TLabel>>, <<TVal(v)>> >>
ProseText(v)    == << <<TWord, TWord>>, <<TVal(v), TWord>> >>

RawTexts ==
    {PlainText(v) : v \in PipeCandidates}
        \cup {FencedText(GoodReplace), LabelledText(UnsafeReplace), ProseText(GoodDelete),
              ProseText(JInt(1))}
        \cup { <<>>, << <<TWord>> >>, << <<TLBrace, TRBrace>> >>,
               << <<TRBrace, TWord, TLBrace>> >>,
               << <<TVal(GoodReplace), TVal(GoodDelete)>> >> }

\* the answer of the text-generation service: a raw text, or a failed call
AiAnswers ==
    {[asked |-> TRUE, ok |-> TRUE, raw |-> r] : r \in RawTexts}
        \cup {[asked |-> TRUE, ok |-> FALSE, raw |-> <<>>]}
\* the script exits with returncode 0 and the service is not asked
ScriptSucceeds == [asked |-> FALSE, ok |-> FALSE, raw |-> <<>>]

\* analysis["correction"]: None, or the validated correction
NoCorrection      == [some |-> FALSE, val |-> JNull]
SomeCorrection(v) == [some |-> TRUE,  val |-> v]

\* a session that keeps any extracted object holding the four keys and a known edit
\* action, without the other checks of the validator
AnalysisCorrectionUnvalidated(answer) ==
    LET parsed == _extract_json_object(answer.raw)
    IN  IF /\ answer.ok
           /\ ~IsBlankText(answer.raw)
           /\ parsed.kind = "ok"
           /\ parsed.val.t = "dict"
           /\ RequiredKeys \subseteq DOMAIN parsed.val.d
           /\ parsed.val.d["action"].s \in {ActReplace, ActInsert, ActDelete}
        THEN SomeCorrection(parsed.val)
        ELSE NoCorrection

\* interface.py lines 164-171: any exception of the call or of the validation
\* leaves correction = None
AnalysisCorrection(answer) ==
    IF answer.ok /\ validate_json_correction(answer.raw, NoMaxLine).kind = "ok"
    THEN SomeCorrection(validate_json_correction(answer.raw, NoMaxLine).val)
    ELSE NoCorrection

\* st.session_state without an analysis
NoSession ==
    [has |-> FALSE, returncode |-> 0, raw |-> <<>>, correction |-> NoCorrection,
     confirm |-> FALSE]

\* the record of the last step: the program and event, the raw text and max_line of
\* the request it serves, whether apply_patch was invoked and with what, the file
\* system before the step, and the number of patcher calls so far
Step(prog, event, raw_text, max_line, applied, arg, before, calls) ==
    [prog |-> prog, event |-> event, raw |-> raw_text, max_line |-> max_line,
     applied |-> applied, arg |-> arg, before |-> before, calls |-> calls]

\* interface.py lines 207-233: the confirmation checkbox and the apply button are drawn
ApplyWidgetsDrawn(sess) == sess.has /\ sess.returncode # 0 /\ sess.correction.some

\* interface.py lines 105-176: the click on "Lancer l'analyse"; the script exits
\* with returncode 0, or fails and the service is asked for a correction
RunAnalysis ==
    \E answer \in AiAnswers \cup {ScriptSucceeds} :
        LET returncode == IF answer = ScriptSucceeds THEN 0 ELSE 1
            correction == IF returncode = 0 THEN NoCorrection ELSE AnalysisCorrection(answer)
            ai_raw     == IF returncode = 0 THEN <<>> ELSE answer.raw
            analysed   == [has |-> TRUE, returncode |-> returncode, raw |-> ai_raw,
                           correction |-> correction,
                           confirm |-> session.confirm /\ returncode # 0 /\ correction.some]
        IN  /\ session' = IF fs[Target].exists THEN analysed ELSE NoSession
            /\ pipe' = Step("interface", "analysis", ai_raw, NoMaxLine, FALSE, JNull, fs,
                            pipe.calls)
            /\ UNCHANGED <<fs, vcall, pcall>>

\* the tick or untick of the confirmation checkbox
ToggleConfirm ==
    /\ ApplyWidgetsDrawn(session)
    /\ session' = [session EXCEPT !.confirm = ~@]
    /\ pipe' = Step("interface", "toggle", session.raw, NoMaxLine, FALSE, JNull, fs, pipe.calls)
    /\ UNCHANGED <<fs, vcall, pcall>>

\* an apply button that does not look at the confirmation checkbox
ClickApplyUnconfirmed ==
    /\ ApplyWidgetsDrawn(session)
    /\ pipe.calls < MaxCalls
    /\ fs' = apply_patch(fs, session.correction.val).fs
    /\ pipe' = Step("interface", "apply_click", session.raw, NoMaxLine,
                    TRUE, session.correction.val, fs, pipe.calls + 1)
    /\ UNCHANGED <<session, vcall, pcall>>

\* interface.py lines 235-245: the click on "Appliquer cette correction au fichier"
ClickApply ==
    /\ ApplyWidgetsDrawn(session)
    /\ pipe.calls < MaxCalls
    /\ IF ~session.confirm
       THEN /\ pipe' = Step("interface", "apply_click", session.raw, NoMaxLine,
                            FALSE, JNull, fs, pipe.calls)
            /\ UNCHANGED fs
       ELSE /\ fs' = apply_patch(fs, session.correction.val).fs
            /\ pipe' = Step("interface", "apply_click", session.raw, NoMaxLine,
                            TRUE, session.correction.val, fs, pipe.calls + 1)
    /\ UNCHANGED <<session, vcall, pcall>>

\* interface.py lines 275-312: the click on the restore button, drawn when a backup exists
ClickRestore ==
    /\ ApplyWidgetsDrawn(session)
    /\ fs[Backup].exists
    /\ pipe.calls < MaxCalls
    /\ fs' = restore_backup(fs, TargetName).fs
    /\ pipe' = Step("interface", "restore_click", session.raw, NoMaxLine,
                    FALSE, JNull, fs, pipe.calls + 1)
    /\ UNCHANGED <<session, vcall, pcall>>

\* main.py lines 39-49: a run whose script exits with returncode 0
MainRunNoError ==
    /\ fs[Target].exists
    /\ pipe' = Step("main", "no_error", <<>>, NoMaxLine, FALSE, JNull, fs, pipe.calls)
    /\ UNCHANGED <<fs, session, vcall, pcall>>

\* main.py lines 39-73: a run whose script fails
MainRun ==
    /\ fs[Target].exists
    /\ pipe.calls < MaxCalls
    /\ \E raw_text \in RawTexts :
          LET max_line   == MaxLine(SplitLinesCount(fs[Target].data))
              correction == parse_and_validate_correction(raw_text, max_line)
          IN  IF correction.kind # "ok"
              THEN /\ pipe' = Step("main", "request", raw_text, max_line, FALSE, JNull, fs,
                                   pipe.calls)
                   /\ UNCHANGED fs
              ELSE /\ fs' = apply_patch(fs, correction.val).fs
                   /\ pipe' = Step("main", "request", raw_text, max_line, TRUE, correction.val,
                                   fs, pipe.calls + 1)
    /\ UNCHANGED <<session, vcall, pcall>>

\* the target files a session starts from
SessionFiles == {<<"a","\n">>, <<" ","a","\n","a">>}

Init ==
    /\ \E t \in SessionFiles : fs = [p \in Paths |-> IF p = Target THEN File(t) ELSE NoFile]
    /\ session = NoSession
    /\ pipe = Step("none", "none", <<>>, NoMaxLine, FALSE, JNull, fs, 0)
    /\ vcall = NoValidatorCall
    /\ pcall = NoPatcherCall(fs, Drive(0, {}, FALSE))

Next ==
    RunAnalysis \/ ToggleConfirm \/ ClickApply \/ ClickRestore \/ MainRunNoError \/ MainRun

Spec == Init /\ [][Next]_vars

-----------------------------------------------------------------------------
(* The extractor called on one raw text, then on the text of what it recovered *)

\* the text of a recovered value, json.dumps(value): one line that holds the value
json_dumps(v) == << <<TVal(v)>> >>

\* values a raw text may hold besides the candidates of the pipelines
ExtractValues ==
    PipeCandidates
        \cup {JNull, JBool(TRUE), JFloat(1), JList(0), JStr(<<>>),
              JStr(<<"j","s","o","n">>), JStr(<<"j","s","o","n"," ","{","}">>),
              Candidate(JStr(TargetName), JNaN, JStr(ActReplace), JStr(<<"a">>))}

\* a fenced block with the label on its own line, inside prose
FencedProseText(v) == << <<TWord>>, <<TFence>>, <<TLabel>>, <<TVal(v)>>, <<TFence>>, <<TWord>> >>

ExtractTexts ==
    RawTexts
        \cup {PlainText(v) : v \in ExtractValues} \cup {FencedText(v) : v \in ExtractValues}
        \cup {LabelledText(v) : v \in ExtractValues} \cup {ProseText(v) : v \in ExtractValues}
        \cup {FencedProseText(v) : v \in ExtractValues}

\* the record of the extractions of one raw text
ExtractCall(raw_text, stage, first, second) ==
    [stage |-> stage, raw |-> raw_text, first |-> first, second |-> second]

\* _extract_json_object(raw_text)
Extract ==
    /\ vcall.stage = "new"
    /\ vcall' = [vcall EXCEPT !.stage = "extracted", !.first = _extract_json_object(vcall.raw)]
    /\ UNCHANGED <<fs, pcall, session, pipe>>

\* _extract_json_object(json.dumps(value)) for the value recovered before
ReExtract ==
    /\ vcall.stage = "extracted"
    /\ vcall.first.kind = "ok"
    /\ vcall' = [vcall EXCEPT !.stage = "reextracted",
                              !.second = _extract_json_object(json_dumps(vcall.first.val))]
    /\ UNCHANGED <<fs, pcall, session, pipe>>

InitExtract ==
    /\ \E raw_text \in ExtractTexts :
          vcall = ExtractCall(raw_text, "new", Raise("none"), Raise("none"))
    /\ fs = 0 /\ pcall = 0 /\ session = 0 /\ pipe = 0

NextExtract == Extract \/ ReExtract

SpecExtract == InitExtract /\ [][NextExtract]_vars

-----------------------------------------------------------------------------
(* Claims about validate_json_correction, checked under SpecValidator *)

\* the value extraction recovers from the raw text of the call
VParsed == _extract_json_object(vcall.raw)

\* the text holds a denylisted token, each letter in either casing
HoldsTokenAnyCase(str) ==
    \E tok \in DangerousTokens : \E i \in 1..(Len(str) - Len(tok) + 1) :
        \A j \in 1..Len(tok) :
            \/ str[i + j - 1] = tok[j]
            \/ tok[j] \in LowerLetters /\ str[i + j - 1] = UpperOf[tok[j]]

NonEmptyStr(v) == v.t = "str" /\ v.s # <<>>
PosInt(v)      == v.t = "int" /\ v.n > 0
NonBlank(str)  == \E i \in 1..Len(str) : str[i] \notin {" ", "\t", "\n"}

\* the action/field contract of a Correction
Contract(p) ==
    /\ p.t = "dict"
    /\ RequiredKeys \subseteq DOMAIN p.d
    /\ p.d["action"].t = "str"
    /\ p.d["action"].s \in {ActReplace, ActInsert, ActDelete, ActNone}
    /\ (p.d["action"].s = ActNone) <=>
          (p.d["file"].t = "null" /\ p.d["line"].t = "null" /\ p.d["new_code"].t = "null")
    /\ p.d["action"].s \in {ActReplace, ActInsert} =>
          /\ NonEmptyStr(p.d["file"])
          /\ PosInt(p.d["line"])
          /\ p.d["new_code"].t = "str" /\ NonBlank(p.d["new_code"].s)
    /\ p.d["action"].s = ActDelete =>
          /\ NonEmptyStr(p.d["file"])
          /\ PosInt(p.d["line"])
          /\ (p.d["new_code"].t = "null" \/ p.d["new_code"] = JStr(<<>>))

\* C3: with max_line = N supplied, a candidate that is valid but for its line is
\* accepted exactly when line <= N for replace and delete, and when line <= N + 1
\* for insert (N + 1 appends at the end, N + 2 is rejected).
C3_BoundCheckPerAction ==
    (/\ vcall.called
     /\ vcall.max_line.some
     /\ validate_json_correction(vcall.raw, NoMaxLine).kind = "ok"
     /\ VParsed.val.d["action"].s \in {ActReplace, ActInsert, ActDelete})
    => LET action == VParsed.val.d["action"].s
           line   == VParsed.val.d["line"].n
           N      == vcall.max_line.n
       IN  (vcall.out.kind = "ok") <=> (line <= IF action = ActInsert THEN N + 1 ELSE N)

\* C8: a replace or insert candidate whose new_code holds a denylisted token in any
\* letter casing is rejected with the validation error; a delete or none candidate
\* that is accepted is returned unchanged.
C8_SafetyScreen ==
    (/\ vcall.called
     /\ VParsed.kind = "ok"
     /\ VParsed.val.t = "dict"
     /\ RequiredKeys \subseteq DOMAIN VParsed.val.d
     /\ VParsed.val.d["action"].t = "str")
    => LET p      == VParsed.val
           action == p.d["action"].s
       IN  /\ (/\ action \in {ActReplace, ActInsert}
               /\ p.d["new_code"].t = "str"
               /\ HoldsTokenAnyCase(p.d["new_code"].s))
              => vcall.out.kind = "JsonValidationError"
           /\ (action \in {ActDelete, ActNone} /\ vcall.out.kind = "ok")
              => vcall.out.val = p

\* C8 witness: an otherwise valid replace whose payload holds a token that is not
\* in lower case has been rejected.
C8_Witness ==
    /\ vcall.called
    /\ VParsed.kind = "ok"
    /\ VParsed.val.t = "dict"
    /\ RequiredKeys \subseteq DOMAIN VParsed.val.d
    /\ VParsed.val.d["action"].s = ActReplace
    /\ validate_json_correction(PlainText(Candidate(VParsed.val.d["file"], VParsed.val.d["line"],
                                    VParsed.val.d["action"], JStr(<<"a">>))), NoMaxLine).kind = "ok"
    /\ HoldsTokenAnyCase(VParsed.val.d["new_code"].s)
    /\ ~(\E tok \in DangerousTokens : Contains(VParsed.val.d["new_code"].s, tok))
    /\ vcall.out.kind = "JsonValidationError"

\* C10: every candidate the validator returns satisfies the action/field contract,
\* and every candidate that violates it is rejected.
C10_ActionFieldContract ==
    (vcall.called /\ VParsed.kind = "ok")
    => /\ vcall.out.kind = "ok" => Contract(vcall.out.val)
       /\ ~Contract(VParsed.val) => vcall.out.kind # "ok"

\* C16: every call of validate_json_correction either returns a candidate or fails
\* with JsonValidationError, also on a raw text that is empty, holds no brace pair or
\* parses to a JSON value that is no object; no other kind of failure escapes.
C16_TypedResult ==
    vcall.called => vcall.out.kind \in {"ok", "JsonValidationError"}

-----------------------------------------------------------------------------
(* Claims about apply_patch and restore_backup *)

PAction     == pcall.corr.d["action"].s
PIndex      == pcall.corr.d["line"].n - 1
PNewCode    == pcall.corr.d["new_code"].s
BeforeLines == ReadLines(pcall.before[Target].data)
AfterLines  == ReadLines(fs[Target].data)

\* the leading run of spaces and tabs of a line
LeadingWs(line) ==
    LET k == CHOOSE n \in 0..Len(line) :
                /\ \A i \in 1..n : line[i] \in {" ", "\t"}
                /\ n < Len(line) => line[n + 1] \notin {" ", "\t"}
    IN  SubSeq(line, 1, k)

\* C1: after a successful replace, insert or delete the backup file holds the content
\* F the target had before the call, and a restore_backup that follows succeeds and
\* makes the target's content F again.
C1_RoundTrip ==
    /\ (pcall.ops = <<"apply">> /\ pcall.applyOk) => fs[Backup] = pcall.orig
    /\ (pcall.ops = <<"apply", "restore">> /\ pcall.applyOk)
       => (pcall.kind = "ok" /\ fs[Target] = pcall.orig)

\* C1 witness: a patch changed the target, and the restore brought F back.
C1_Witness ==
    /\ pcall.ops = <<"apply", "restore">>
    /\ pcall.applyOk
    /\ pcall.before[Target] # pcall.orig
    /\ fs[Target] = pcall.orig

\* C2: apply_patch with action = none leaves the target file and the backup slot as
\* they were and returns the "nothing applied" text, which is no file path.
C2_NoneTouchesNothing ==
    (pcall.ops = <<"apply">> /\ PAction = ActNone)
    => /\ fs = pcall.before
       /\ pcall.kind = "ok"
       /\ pcall.ret = NothingApplied
       /\ pcall.ret \notin Paths

\* C2 witness: action = none was applied where the target exists and no backup does.
C2_Witness ==
    /\ pcall.ops = <<"apply">>
    /\ PAction = ActNone
    /\ fs[Target].exists
    /\ ~fs[Backup].exists

\* C4: a replace or delete whose line exceeds the target's line count fails with a
\* range error, and leaves the target file and the backup slot as they were.
C4_RangeFailureLeavesFilesUntouched ==
    (/\ pcall.ops = <<"apply">>
     /\ PAction \in {ActReplace, ActDelete}
     /\ pcall.before[Target].exists
     /\ PIndex + 1 > Len(BeforeLines))
    => (pcall.kind = "IndexError" /\ fs = pcall.before)

\* C5: a successful replace keeps the target's number of lines, a successful insert
\* adds exactly one line, a successful delete removes exactly one.
C5_LineCountDelta ==
    (pcall.ops = <<"apply">> /\ pcall.applyOk)
    => Len(AfterLines) = Len(BeforeLines)
                            + (CASE PAction = ActReplace -> 0
                                 [] PAction = ActInsert  -> 1
                                 [] PAction = ActDelete  -> -1)

\* C6: a successful apply_patch changes nothing but the addressed line: replace keeps
\* every other line in place, insert shifts the former lines L..N down by one, delete
\* shifts the former lines L+1..N up by one.
C6_ExactlyOneLineEdit ==
    (pcall.ops = <<"apply">> /\ pcall.applyOk)
    => LET L == PIndex + 1
           N == Len(BeforeLines)
       IN  CASE PAction = ActReplace ->
                    /\ Len(AfterLines) = N
                    /\ \A i \in 1..N : i # L => AfterLines[i] = BeforeLines[i]
             [] PAction = ActInsert ->
                    /\ Len(AfterLines) = N + 1
                    /\ \A i \in 1..(L - 1) : AfterLines[i] = BeforeLines[i]
                    /\ \A i \in L..N : AfterLines[i + 1] = BeforeLines[i]
             [] PAction = ActDelete ->
                    /\ Len(AfterLines) = N - 1
                    /\ \A i \in 1..(L - 1) : AfterLines[i] = BeforeLines[i]
                    /\ \A i \in (L + 1)..N : AfterLines[i - 1] = BeforeLines[i]

EmbeddedBreak(str) == \E i \in 1..(Len(str) - 1) : str[i] = "\n"

\* C11: the new_code of a validated replace or insert that apply_patch has written
\* holds no embedded line break, and the payload written at idx is exactly one line
\* of the target file.
C11_SingleLinePayload ==
    (pcall.ops = <<"apply">> /\ pcall.applyOk /\ PAction \in {ActReplace, ActInsert})
    => /\ ~EmbeddedBreak(PNewCode)
       /\ Len(ReadLines(pcall.lines[PIndex + 1])) = 1

\* the last operation of the behaviour was restore_backup
RestoredLast == pcall.ops # <<>> /\ pcall.ops[Len(pcall.ops)] = "restore"

\* C13: restore_backup fails with a not-found error and changes no file when the
\* target has no backup; otherwise it succeeds, the target holds the backup's content,
\* the backup is still there with the same content, and a second restore succeeds and
\* leaves every file as the first one left it.
C13_RestoreContract ==
    /\ (RestoredLast /\ ~pcall.before[Backup].exists)
       => (pcall.kind = "FileNotFoundError" /\ fs = pcall.before)
    /\ (RestoredLast /\ pcall.before[Backup].exists)
       => /\ pcall.kind = "ok"
          /\ pcall.ret = Target
          /\ fs[Target] = pcall.before[Backup]
          /\ \A p \in Paths \ {Target} : fs[p] = pcall.before[p]
    /\ (/\ Len(pcall.ops) >= 2
        /\ SubSeq(pcall.ops, Len(pcall.ops) - 1, Len(pcall.ops)) = <<"restore", "restore">>
        /\ pcall.before[Backup].exists)
       => (pcall.kind = "ok" /\ fs = pcall.before)

\* C13 witness: after a patch that changed the target, a second restore in a row
\* succeeded and left the restored content and the backup in place.
C13_Witness ==
    /\ pcall.ops = <<"apply", "restore", "restore">>
    /\ pcall.applyOk
    /\ pcall.kind = "ok"
    /\ WriteLines(pcall.lines) # pcall.orig.data
    /\ fs[Target] = pcall.orig
    /\ fs[Backup] = pcall.orig

\* C15: on an existing target of N lines, with idx = line - 1, apply_patch fails with
\* the range error exactly when idx is outside [0, N) for replace and delete and
\* outside [0, N] for insert, and succeeds otherwise; an insert at line N + 1 appends
\* the new line at the end of the file, an insert at line N + 2 fails.
C15_ApplyRangeCheck ==
    (/\ pcall.ops = <<"apply">>
     /\ PAction \in {ActReplace, ActInsert, ActDelete}
     /\ pcall.before[Target].exists)
    => LET N       == Len(BeforeLines)
           inRange == 0 <= PIndex /\ PIndex < (IF PAction = ActInsert THEN N + 1 ELSE N)
       IN  /\ (pcall.kind = "IndexError") <=> ~inRange
           /\ inRange => pcall.kind = "ok"
           /\ (PAction = ActInsert /\ PIndex = N)
              => /\ Len(pcall.lines) = N + 1
                 /\ fs[Target].data = pcall.before[Target].data \o pcall.lines[N + 1]
           /\ (PAction = ActInsert /\ PIndex = N + 1) => pcall.kind = "IndexError"

\* C15 witness: an insert at line N + 1 of a target of N >= 1 lines succeeded and
\* appended its line.
C15_Witness ==
    /\ pcall.ops = <<"apply">>
    /\ PAction = ActInsert
    /\ pcall.before[Target].exists
    /\ Len(BeforeLines) >= 1
    /\ PIndex = Len(BeforeLines)
    /\ pcall.kind = "ok"
    /\ fs[Target].data = pcall.before[Target].data \o pcall.lines[PIndex + 1]

\* the names between the separators of a path
RECURSIVE SplitPath(_, _)
SplitPath(path, cur) ==
    IF path = <<>> THEN (IF cur = <<>> THEN <<>> ELSE <<cur>>)
    ELSE IF Head(path) = "/"
         THEN (IF cur = <<>> THEN <<>> ELSE <<cur>>) \o SplitPath(Tail(path), <<>>)
         ELSE SplitPath(Tail(path), Append(cur, Head(path)))

\* the directories and the file an absolute path leads to: "." stays, ".." goes up
RECURSIVE Resolve(_, _)
Resolve(names, at) ==
    IF names = <<>> THEN at
    ELSE IF Head(names) = <<".">> THEN Resolve(Tail(names), at)
    ELSE IF Head(names) = <<".", ".">>
         THEN Resolve(Tail(names), IF at = <<>> THEN <<>> ELSE SubSeq(at, 1, Len(at) - 1))
         ELSE Resolve(Tail(names), Append(at, Head(names)))

RealPath(path) == Resolve(SplitPath(path, <<>>), <<>>)

\* the path leads to a file inside <projectRoot>/sources/
InsideSources(path) ==
    LET dir == RealPath(ProjectRoot \o <<"/", "sources">>)
    IN  /\ Len(RealPath(path)) > Len(dir)
        /\ SubSeq(RealPath(path), 1, Len(dir)) = dir

\* C17: for every correction the validator accepted, the file apply_patch reads, backs
\* up and rewrites lies inside <projectRoot>/sources/, and no file outside that
\* directory is created or changed.
C17_PathContainment ==
    (/\ pcall.ops = <<"apply">>
     /\ validate_json_correction(PlainText(pcall.corr), NoMaxLine) = Ok(pcall.corr)
     /\ PAction # ActNone)
    => /\ InsideSources(TargetPath(pcall.corr.d["file"].s))
       /\ \A p \in Paths : fs[p] # pcall.before[p] => InsideSources(p)

\* the existing files that are backups of the target: the target's path and a suffix
BackupsOfTarget ==
    {p \in DOMAIN fs :
        /\ fs[p].exists
        /\ Len(p) > Len(Target)
        /\ SubSeq(p, 1, Len(Target)) = Target}

\* C12: after two successful applies on the target with no restore in between, the
\* backup holds the target's content as it was between the two; a restore that
\* follows succeeds and yields that content, not the content before the first apply;
\* at any time at most one backup of the target exists.
C12_SingleSlotBackup ==
    /\ (pcall.ops = <<"apply", "apply">> /\ pcall.okApplies = 2) => fs[Backup] = pcall.orig
    /\ (pcall.ops = <<"apply", "apply", "restore">> /\ pcall.okApplies = 2)
       => /\ pcall.kind = "ok"
          /\ fs[Target] = pcall.orig
          /\ pcall.first # pcall.orig => fs[Target] # pcall.first
    /\ Cardinality(BackupsOfTarget) <= 1

\* C12 witness: two applies each changed the target, an older backup existed before
\* them, and the restore brought back the content between the two applies.
C12_Witness ==
    /\ pcall.ops = <<"apply", "apply", "restore">>
    /\ pcall.okApplies = 2
    /\ pcall.first # pcall.orig
    /\ pcall.before[Target] # pcall.orig
    /\ pcall.before[Backup] = pcall.orig
    /\ fs[Target] = pcall.orig
    /\ fs[Target] # pcall.first

-----------------------------------------------------------------------------
(* Claims about the pipelines, checked under Spec *)

\* C9: a step that serves a request whose extraction, validation or safety screen
\* fails does not invoke apply_patch and leaves the target file and its backup as
\* they were; apply_patch is only ever invoked with the candidate that the validation
\* of the request's raw text returned.
C9_PipelineOrdering ==
    /\ (/\ pipe.event \in {"analysis", "request", "apply_click"}
        /\ validate_json_correction(pipe.raw, pipe.max_line).kind # "ok")
       => (~pipe.applied /\ fs = pipe.before)
    /\ pipe.applied
       => validate_json_correction(pipe.raw, pipe.max_line) = Ok(pipe.arg)

\* C18: in the interactive session apply_patch is invoked only by an apply click made
\* while the confirmation checkbox is ticked and the session holds the validated
\* correction of an analysis whose script run failed; an apply click without
\* confirmation invokes nothing and leaves the target file and the backup as they were.
C18_ConfirmationGate ==
    /\ (pipe.prog = "interface" /\ pipe.applied)
       => /\ pipe.event = "apply_click"
          /\ session.confirm
          /\ session.has
          /\ session.returncode # 0
          /\ session.correction = SomeCorrection(pipe.arg)
          /\ validate_json_correction(session.raw, NoMaxLine) = Ok(pipe.arg)
    /\ (pipe.event = "apply_click" /\ ~session.confirm)
       => (~pipe.applied /\ fs = pipe.before)
    /\ (pipe.prog = "interface" /\ pipe.event \in {"analysis", "toggle"})
       => (~pipe.applied /\ fs = pipe.before)

\* C18 witness: after a confirmed apply (a backup exists) the checkbox was unticked
\* and a further apply click with an edit correction changed nothing.
C18_Witness ==
    /\ pipe.event = "apply_click"
    /\ ~session.confirm
    /\ session.correction.some
    /\ session.correction.val.d["action"].s = ActReplace
    /\ fs[Backup].exists
    /\ ~pipe.applied
    /\ fs = pipe.before

\* C9 witness: after a validated correction had been applied (a backup exists), an
\* answer that parses but fails validation was served without a patch.
C9_Witness ==
    /\ pipe.event \in {"analysis", "request"}
    /\ pipe.raw # <<>>
    /\ _extract_json_object(pipe.raw).kind = "ok"
    /\ validate_json_correction(pipe.raw, pipe.max_line).kind = "JsonValidationError"
    /\ ~pipe.applied
    /\ fs[Backup].exists

====
